---- MODULE Spec2Model ----
(***************************************************************************)
(* Model of pylearn2/expr/nnet.py: tracing a Theano graph from the output  *)
(* of a softmax / sigmoid back to its argument (arg_of_softmax,            *)
(* arg_of_sigmoid), the losses and ratio built on that (kl, elemwise_kl,   *)
(* softmax_ratio) and the precision / recall / f1 helpers.                 *)
(*                                                                         *)
(* The Theano graph is the state: a sequence of variables, each with its   *)
(* ndim and its owner (None for an input, else the Apply node: op and      *)
(* inputs).  The graph is built by the framework (NewLeaf, ApplyOp); the   *)
(* functions of nnet.py are the other actions, each recording the call and *)
(* its outcome (the value returned or the exception raised).  Calls are    *)
(* synchronous: the next step is taken once the caller has the outcome     *)
(* (Finish).  Assertions are enabled (Python is not run with -O).          *)
(***************************************************************************)
EXTENDS Integers, Sequences, FiniteSets, TLC

VARIABLES
    nodes,      \* the Theano graph: nodes[i] is variable i, [ndim, owner]
    call,       \* the last call made: [fn, args]
    result,     \* its outcome: Return(value) or Raise(exception)
    built       \* the derived nodes the call constructed, in order

vars == <<nodes, call, result, built>>

---------------------------------------------------------------------------
(* Bounds *)

MaxNodes == 4       \* variables in the graph (introspection)
MaxLossNodes == 3   \* variables in the graph (losses and ratio)
MaxRank == 3        \* ndim of an input variable is in 1..MaxRank
MaxDbgLen == 2      \* entries of a debug (test) value of Y
MaxCount == 4       \* tp, fp are counts in 0..MaxCount
MaxTargets == 3     \* entries of the targets y of compute_recall
ProbDen == 4        \* precision and recall given to compute_f1: k / ProbDen
MaxRows == 1        \* rows of the arguments of the two softmaxes
MaxCols == 3        \* columns (classes) of the arguments of the two softmaxes

Ranks == 1..MaxRank

---------------------------------------------------------------------------
(* The graph: owners and operations (theano.gof.Apply, theano Op classes) *)

None == [type |-> "None"]

\* Op instances.  Only an Elemwise op has the attribute scalar_op.
SoftmaxOp == [type |-> "Softmax"]
PrintOp == [type |-> "Print"]
SigmoidOp == [type |-> "Elemwise", scalar_op |-> "ScalarSigmoid"]
TanhOp == [type |-> "Elemwise", scalar_op |-> "Tanh"]
DotOp == [type |-> "Dot"]

Ops == {SoftmaxOp, PrintOp, SigmoidOp, TanhOp, DotOp}

Leaf(r) == [ndim |-> r, owner |-> None]

\* The output variable of op applied to the single input x (every op of
\* Ops keeps the rank of its input).
Applied(g, op, x) == [ndim |-> g[x].ndim, owner |-> [op |-> op, inputs |-> <<x>>]]

NodeIds(g) == 1..Len(g)

isinstance(op, cls) == op.type = cls

hasattr_scalar_op(op) == "scalar_op" \in DOMAIN op

---------------------------------------------------------------------------
(* Outcomes of a call *)

NoValue == [op |-> "none"]

\* A Theano variable as a value handed around: the variable itself, by identity.
Var(n) == [op |-> "var", id |-> n]

Return(v) == [ok |-> TRUE, exc |-> "", kind |-> "", about |-> None, value |-> v]

\* exc is the Python exception class raised, kind the check that raised it,
\* about the op the message describes (str(op)), None when it names none.
Raise(exc, kind, about) ==
    [ok |-> FALSE, exc |-> exc, kind |-> kind, about |-> about, value |-> NoValue]

---------------------------------------------------------------------------
(* arg_of_softmax, arg_of_sigmoid *)

\* isinstance(op, T.nnet.Softmax)
IsSoftmax(op) == isinstance(op, "Softmax")

\* Mutant of IsSigmoid: any Elemwise op is taken for the sigmoid.
IsSigmoidAnyElemwise(op) == isinstance(op, "Elemwise")

\* isinstance(op, T.Elemwise) and isinstance(op.scalar_op, ScalarSigmoid)
IsSigmoid(op) ==
    IF isinstance(op, "Elemwise") THEN op.scalar_op = "ScalarSigmoid" ELSE FALSE

\* isinstance(op, Print): whether the tracing steps over this op
IsPrint(op) == isinstance(op, "Print")

\* z.ndim == 2
RankOk(ndim) == ndim = 2

\* The variable under every Print layer above n (used by the mutant below).
RECURSIVE StripPrints(_, _)
StripPrints(g, n) ==
    IF g[n].owner # None /\ IsPrint(g[n].owner.op)
    THEN StripPrints(g, g[n].owner.inputs[1])
    ELSE n

\* Mutant of arg_of_softmax: every Print layer is unwrapped, not only one.
arg_of_softmax_AllPrints(g, Y_hat) ==
    LET owner0 == g[Y_hat].owner IN
    IF owner0 = None THEN Raise("AssertionError", "OwnerIsNone", None)
    ELSE
      LET owner == g[StripPrints(g, Y_hat)].owner IN
      IF owner = None THEN Raise("AttributeError", "NoneHasNoOp", None)
      ELSE IF ~IsSoftmax(owner.op)
           THEN Raise("ValueError", "NotRecognizedOperationError", owner.op)
      ELSE LET z == owner.inputs[1] IN
           IF ~RankOk(g[z].ndim) THEN Raise("AssertionError", "RankError", None)
           ELSE Return(Var(z))

\* Mutant of arg_of_softmax: the rank of the input is checked before the
\* operation.
arg_of_softmax_RankFirst(g, Y_hat) ==
    LET owner0 == g[Y_hat].owner IN
    IF owner0 = None THEN Raise("AssertionError", "OwnerIsNone", None)
    ELSE
      LET unwrap == IsPrint(owner0.op)
          Y1 == IF unwrap THEN owner0.inputs[1] ELSE Y_hat
          owner == g[Y1].owner
      IN
      IF owner = None THEN Raise("AttributeError", "NoneHasNoOp", None)
      ELSE LET z == owner.inputs[1] IN
           IF ~RankOk(g[z].ndim) THEN Raise("AssertionError", "RankError", None)
           ELSE IF ~IsSoftmax(owner.op)
           THEN Raise("ValueError", "NotRecognizedOperationError", owner.op)
           ELSE Return(Var(z))

arg_of_softmax(g, Y_hat) ==
    LET owner0 == g[Y_hat].owner IN
    IF owner0 = None THEN Raise("AssertionError", "OwnerIsNone", None)
    ELSE
      LET unwrap == IsPrint(owner0.op)
          Y1 == IF unwrap THEN owner0.inputs[1] ELSE Y_hat
          owner == g[Y1].owner
      IN
      IF owner = None THEN Raise("AttributeError", "NoneHasNoOp", None)
      ELSE IF ~IsSoftmax(owner.op)
           THEN Raise("ValueError", "NotRecognizedOperationError", owner.op)
      ELSE LET z == owner.inputs[1] IN
           IF ~RankOk(g[z].ndim) THEN Raise("AssertionError", "RankError", None)
           ELSE Return(Var(z))

arg_of_sigmoid(g, Y_hat) ==
    LET owner0 == g[Y_hat].owner IN
    IF owner0 = None THEN Raise("AssertionError", "OwnerIsNone", None)
    ELSE
      LET unwrap == IsPrint(owner0.op)
          Y1 == IF unwrap THEN owner0.inputs[1] ELSE Y_hat
          owner == g[Y1].owner
      IN
      IF owner = None THEN Raise("AttributeError", "NoneHasNoOp", None)
      ELSE LET success == IsSigmoid(owner.op) IN
           IF ~success
           THEN Raise("TypeError", "NotRecognizedOperationError", owner.op)
      ELSE LET z == owner.inputs[1] IN
           IF ~RankOk(g[z].ndim) THEN Raise("AssertionError", "RankError", None)
           ELSE Return(Var(z))

---------------------------------------------------------------------------
(* Rational numbers <<n, d>>, d > 0, in lowest terms; Undefined is the     *)
(* outcome of a division by zero.                                          *)

RECURSIVE GCD(_, _)
GCD(a, b) == IF b = 0 THEN a ELSE GCD(b, a % b)

Abs(a) == IF a < 0 THEN -a ELSE a

Undefined == <<0, 0>>

IsDefined(q) == q[2] # 0

Norm(n, d) ==
    IF d = 0 THEN Undefined
    ELSE LET k == GCD(Abs(n), Abs(d))
             sgn == IF d < 0 THEN -1 ELSE 1
         IN <<sgn * (n \div k), sgn * (d \div k)>>

Rat(n) == <<n, 1>>

RAdd(p, q) ==
    IF ~IsDefined(p) \/ ~IsDefined(q) THEN Undefined
    ELSE Norm(p[1] * q[2] + q[1] * p[2], p[2] * q[2])

RMul(p, q) ==
    IF ~IsDefined(p) \/ ~IsDefined(q) THEN Undefined
    ELSE Norm(p[1] * q[1], p[2] * q[2])

RDiv(p, q) ==
    IF ~IsDefined(p) \/ ~IsDefined(q) THEN Undefined
    ELSE Norm(p[1] * q[2], p[2] * q[1])

\* p <= q; a comparison with Undefined (nan) is false
RLe(p, q) == IsDefined(p) /\ IsDefined(q) /\ p[1] * q[2] <= q[1] * p[2]

RMax(p, q) == IF RLe(p, q) THEN q ELSE p

---------------------------------------------------------------------------
(* Debug (test) values: get_debug_values(Y) is empty when Theano computes  *)
(* no test values, else holds the one test value of Y, an array.           *)

\* entries: -1/2, 0, 1/2, 1, 3/2
DbgEntries == {<<-1, 2>>, <<0, 1>>, <<1, 2>>, <<1, 1>>, <<3, 2>>}

DbgArrays == UNION {[1..k -> DbgEntries] : k \in 1..MaxDbgLen}

DebugValues == {<<>>} \cup {<<a>> : a \in DbgArrays}

\* Yv.min(), Yv.max()
ArrMin(a) == CHOOSE m \in {a[i] : i \in DOMAIN a} : \A i \in DOMAIN a : RLe(m, a[i])

ArrMax(a) == CHOOSE m \in {a[i] : i \in DOMAIN a} : \A i \in DOMAIN a : RLe(a[i], m)

\* Mutant of InUnitInterval: the bounds 0 and 1 themselves are refused.
InOpenUnitInterval(a) ==
    /\ RLe(Rat(0), ArrMin(a)) /\ ArrMin(a) # Rat(0)
    /\ RLe(ArrMax(a), Rat(1)) /\ ArrMax(a) # Rat(1)

\* Yv.min() >= 0.0 and Yv.max() <= 1.0
InUnitInterval(a) == RLe(Rat(0), ArrMin(a)) /\ RLe(ArrMax(a), Rat(1))

\* the for loop over get_debug_values(Y): whether it raises
DebugCheckFails(dbg) == \E i \in DOMAIN dbg : ~InUnitInterval(dbg[i])

---------------------------------------------------------------------------
(* Derived nodes: the expressions the functions construct                  *)

Neg(a) == [op |-> "neg", a |-> a]
Softplus(a) == [op |-> "softplus", a |-> a]
Exp(a) == [op |-> "exp", a |-> a]
OneMinus(a) == [op |-> "one_minus", a |-> a]
Mul(a, b) == [op |-> "mul", a |-> a, b |-> b]
Add(a, b) == [op |-> "add", a |-> a, b |-> b]
Sub(a, b) == [op |-> "sub", a |-> a, b |-> b]
TrueDiv(a, b) == [op |-> "true_div", a |-> a, b |-> b]
\* a.max(axis=1).dimshuffle(0, 'x') and the like
RowMax(a) == [op |-> "row_max", a |-> a]
RowMin(a) == [op |-> "row_min", a |-> a]
RowSum(a) == [op |-> "row_sum", a |-> a]
\* a.mean(axis=axes)
Mean(a, axes) == [op |-> "mean", a |-> a, axes |-> axes]

Max(a, b) == IF a >= b THEN a ELSE b

---------------------------------------------------------------------------
(* kl, elemwise_kl *)

\* A batch_axis argument: <<>> is None, <<b>> the integer b.
BatchAxisArgs == {<<>>} \cup {<<b>> : b \in (0 - MaxRank - 1)..MaxRank}

\* Mutant of DelAxis: the batch axis is the one axis kept in the list.
DelAxisKeepsBatch(naxes, b) ==
    LET i == IF b < 0 THEN naxes + b ELSE b IN
    IF i < 0 \/ i >= naxes THEN <<FALSE, {}>>
    ELSE <<TRUE, {i}>>

\* list(range(naxes)) with `del axes_to_reduce[batch_axis]` applied:
\* <<TRUE, axes left>>, or <<FALSE, {}>> when the index is out of range.
DelAxis(naxes, b) ==
    LET i == IF b < 0 THEN naxes + b ELSE b IN
    IF i < 0 \/ i >= naxes THEN <<FALSE, {}>>
    ELSE <<TRUE, (0..(naxes - 1)) \ {i}>>

\* term_1 + term_2 of kl
KlTotal(Y, z) ==
    Add(Mul(Var(Y), Softplus(Neg(Var(z)))), Mul(OneMinus(Var(Y)), Softplus(Var(z))))

\* term_1 + term_2 of elemwise_kl
ElemwiseKlTotal(Y, z) ==
    Add(Mul(Var(Y), Softplus(Neg(Var(z)))), Mul(OneMinus(Var(Y)), Softplus(Var(z))))

\* total.ndim: the operands broadcast to the larger rank
TotalNdim(g, Y, z) == Max(g[Y].ndim, g[z].ndim)

\* Mutant of KlChecks: the logit is recovered by arg_of_sigmoid.
KlChecksByArgOfSigmoid(g, Y_hat, dbg) ==
    LET r == arg_of_sigmoid(g, Y_hat) IN
    IF ~r.ok THEN r
    ELSE IF DebugCheckFails(dbg) THEN Raise("ValueError", "DomainError", None)
    ELSE r

\* The checks both functions make on Y_hat and Y before building anything:
\* the exception raised, or Return(Var(z)).
KlChecks(g, Y_hat, dbg) ==
    LET owner == g[Y_hat].owner IN
    IF owner = None THEN Raise("AssertionError", "OwnerIsNone", None)
    ELSE IF ~hasattr_scalar_op(owner.op)
         THEN Raise("ValueError", "NotRecognizedOperationError", owner.op)
    ELSE IF owner.op.scalar_op # "ScalarSigmoid"
         THEN Raise("AssertionError", "ScalarOpIsNotSigmoid", None)
    ELSE IF DebugCheckFails(dbg) THEN Raise("ValueError", "DomainError", None)
    ELSE Return(Var(owner.inputs[1]))

\* kl: <<outcome, derived nodes built>>; the nodes built are those bound to
\* the names term_1, term_2, total, ave
kl(g, Y, Y_hat, batch_axis, dbg) ==
    IF batch_axis = <<>> THEN <<Raise("AssertionError", "BatchAxisIsNone", None), <<>>>>
    ELSE
      LET chk == KlChecks(g, Y_hat, dbg) IN
      IF ~chk.ok THEN <<chk, <<>>>>
      ELSE
        LET z == chk.value.id
            term_1 == Mul(Var(Y), Softplus(Neg(Var(z))))
            term_2 == Mul(OneMinus(Var(Y)), Softplus(Var(z)))
            total == KlTotal(Y, z)
            del == DelAxis(TotalNdim(g, Y, z), batch_axis[1])
        IN
        IF ~del[1]
        THEN <<Raise("IndexError", "BatchAxisOutOfRange", None), <<term_1, term_2, total>>>>
        ELSE LET ave == Mean(total, del[2]) IN
             <<Return(ave), <<term_1, term_2, total, ave>>>>

\* elemwise_kl: <<outcome, derived nodes built>>
elemwise_kl(g, Y, Y_hat, dbg) ==
    LET chk == KlChecks(g, Y_hat, dbg) IN
    IF ~chk.ok THEN <<chk, <<>>>>
    ELSE
      LET z == chk.value.id
          term_1 == Mul(Var(Y), Softplus(Neg(Var(z))))
          term_2 == Mul(OneMinus(Var(Y)), Softplus(Var(z)))
          total == ElemwiseKlTotal(Y, z)
      IN <<Return(total), <<term_1, term_2, total>>>>

---------------------------------------------------------------------------
(* softmax_ratio: the graph it builds *)

\* new_num / new_den, from the shifted arguments
RatioExpr(numer_Z, denom_Z) ==
    LET new_num == Mul(Exp(Sub(numer_Z, denom_Z)), RowSum(Exp(denom_Z)))
        new_den == RowSum(Exp(numer_Z))
    IN TrueDiv(new_num, new_den)

\* Mutant of softmax_ratio: denom is traced before numer.
softmax_ratio_DenomFirst(g, numer, denom) ==
    LET rd == arg_of_softmax(g, denom) IN
    IF ~rd.ok THEN <<rd, <<>>>>
    ELSE
      LET rn == arg_of_softmax(g, numer) IN
      IF ~rn.ok THEN <<rn, <<>>>>
      ELSE
        LET numer_Z == Sub(rn.value, RowMax(rn.value))
            denom_Z == Sub(rd.value, RowMin(rd.value))
            ratio == RatioExpr(numer_Z, denom_Z)
        IN <<Return(ratio), <<numer_Z, denom_Z, ratio.a, ratio.b, ratio>>>>

\* softmax_ratio: <<outcome, derived nodes built>>.  `numer_Z -= ...` rebinds
\* the name to a new variable (a Theano variable has no in-place
\* subtraction): the variable arg_of_softmax returned is not changed.
softmax_ratio(g, numer, denom) ==
    LET rn == arg_of_softmax(g, numer) IN
    IF ~rn.ok THEN <<rn, <<>>>>
    ELSE
      LET rd == arg_of_softmax(g, denom) IN
      IF ~rd.ok THEN <<rd, <<>>>>
      ELSE
        LET numer_Z == Sub(rn.value, RowMax(rn.value))
            denom_Z == Sub(rd.value, RowMin(rd.value))
            ratio == RatioExpr(numer_Z, denom_Z)
        IN <<Return(ratio), <<numer_Z, denom_Z, ratio.a, ratio.b, ratio>>>>

---------------------------------------------------------------------------
(* compute_precision, compute_recall, compute_f1 *)

Num(q) == [op |-> "num", v |-> q]

\* Mutant of maximum: no floor, the second argument is returned.
maximum_NoFloor(a, b) == b

\* T.maximum(a, b)
maximum(a, b) == RMax(a, b)

\* y.sum()
RECURSIVE SeqSum(_)
SeqSum(y) == IF y = <<>> THEN 0 ELSE y[1] + SeqSum(Tail(y))

compute_precision(tp, fp) == RDiv(Rat(tp), maximum(Rat(1), Rat(tp + fp)))

compute_recall(y, tp) == RDiv(Rat(tp), maximum(Rat(1), Rat(SeqSum(y))))

compute_f1(precision, recall) ==
    RDiv(RMul(RMul(Rat(2), precision), recall), maximum(Rat(1), RAdd(precision, recall)))

Counts == 0..MaxCount

\* binary targets
Targets == UNION {[1..k -> {0, 1}] : k \in 1..MaxTargets}

Probs == {Norm(k, ProbDen) : k \in 0..ProbDen}

---------------------------------------------------------------------------
(* softmax_ratio: the value of the graph it builds, given the values of the *)
(* two softmax arguments.  exp is b^x for a base b > 1 on integer logits:   *)
(* what the expression relies on is exp(x + y) = exp(x) * exp(y).           *)

Logits == {-1, 1}

ExpBases == {2, 3}

Matrices(r, c) == [1..r -> [1..c -> Logits]]

RExp(base, k) == IF k >= 0 THEN <<base ^ k, 1>> ELSE <<1, base ^ (0 - k)>>

\* row.max(), row.min()
RowMaxOf(row) == CHOOSE m \in {row[j] : j \in DOMAIN row} : \A j \in DOMAIN row : row[j] <= m
RowMinOf(row) == CHOOSE m \in {row[j] : j \in DOMAIN row} : \A j \in DOMAIN row : m <= row[j]

\* sum over the first n entries of exp(row)
RECURSIVE ExpRowSum(_, _, _)
ExpRowSum(base, row, n) ==
    IF n = 0 THEN Rat(0) ELSE RAdd(ExpRowSum(base, row, n - 1), RExp(base, row[n]))

\* a row of Z - Z.max(axis=1).dimshuffle(0, 'x')
ShiftByRowMax(row) == LET m == RowMaxOf(row) IN [j \in DOMAIN row |-> row[j] - m]

\* a row of Z - Z.min(axis=1).dimshuffle(0, 'x')
ShiftByRowMin(row) == LET m == RowMinOf(row) IN [j \in DOMAIN row |-> row[j] - m]

\* a row of new_num = exp(numer_Z - denom_Z)
\*                    * exp(denom_Z).sum(axis=1).dimshuffle(0, 'x')
NewNum(base, numer_Z, denom_Z) ==
    LET s == ExpRowSum(base, denom_Z, Len(denom_Z)) IN
    [j \in DOMAIN numer_Z |-> RMul(RExp(base, numer_Z[j] - denom_Z[j]), s)]

\* Mutant of NewDen: the row sum is taken of exp(denom_Z).
NewDenOfDenom(base, numer_Z, denom_Z) == ExpRowSum(base, denom_Z, Len(denom_Z))

\* the entry of a row of new_den = exp(numer_Z).sum(axis=1).dimshuffle(0, 'x')
NewDen(base, numer_Z, denom_Z) == ExpRowSum(base, numer_Z, Len(numer_Z))

\* a row of new_num / new_den
RatioRow(base, numer_Z, denom_Z) ==
    LET new_num == NewNum(base, numer_Z, denom_Z)
        new_den == NewDen(base, numer_Z, denom_Z)
    IN [j \in DOMAIN numer_Z |-> RDiv(new_num[j], new_den)]

\* the value softmax_ratio's graph computes from the two softmax arguments;
\* every reduction is along axis 1 and broadcast back over the row
softmax_ratio_value(base, Zn, Zd) ==
    [i \in DOMAIN Zn |-> RatioRow(base, ShiftByRowMax(Zn[i]), ShiftByRowMin(Zd[i]))]

---------------------------------------------------------------------------
(* Actions *)

NoCall == [fn |-> "none", args |-> <<>>]

Init ==
    /\ nodes = <<>>
    /\ call = NoCall
    /\ result = Return(NoValue)
    /\ built = <<>>

\* The framework creates an input variable of rank r.
NewLeaf(r, limit) ==
    /\ call = NoCall
    /\ Len(nodes) < limit
    /\ nodes' = Append(nodes, Leaf(r))
    /\ call' = NoCall
    /\ result' = Return(NoValue)
    /\ built' = <<>>

\* The framework applies op to the variable x.
ApplyOp(op, x, limit) ==
    /\ call = NoCall
    /\ Len(nodes) < limit
    /\ nodes' = Append(nodes, Applied(nodes, op, x))
    /\ call' = NoCall
    /\ result' = Return(NoValue)
    /\ built' = <<>>

CallArgOfSoftmax(n) ==
    /\ call = NoCall
    /\ call' = [fn |-> "arg_of_softmax", args |-> <<n>>]
    /\ result' = arg_of_softmax(nodes, n)
    /\ built' = <<>>
    /\ UNCHANGED nodes

CallArgOfSigmoid(n) ==
    /\ call = NoCall
    /\ call' = [fn |-> "arg_of_sigmoid", args |-> <<n>>]
    /\ result' = arg_of_sigmoid(nodes, n)
    /\ built' = <<>>
    /\ UNCHANGED nodes

CallKl(Y, Y_hat, batch_axis, dbg) ==
    LET r == kl(nodes, Y, Y_hat, batch_axis, dbg) IN
    /\ call = NoCall
    /\ call' = [fn |-> "kl", args |-> <<Y, Y_hat, batch_axis, dbg>>]
    /\ result' = r[1]
    /\ built' = r[2]
    /\ UNCHANGED nodes

CallElemwiseKl(Y, Y_hat, dbg) ==
    LET r == elemwise_kl(nodes, Y, Y_hat, dbg) IN
    /\ call = NoCall
    /\ call' = [fn |-> "elemwise_kl", args |-> <<Y, Y_hat, dbg>>]
    /\ result' = r[1]
    /\ built' = r[2]
    /\ UNCHANGED nodes

CallSoftmaxRatio(numer, denom) ==
    LET r == softmax_ratio(nodes, numer, denom) IN
    /\ call = NoCall
    /\ call' = [fn |-> "softmax_ratio", args |-> <<numer, denom>>]
    /\ result' = r[1]
    /\ built' = r[2]
    /\ UNCHANGED nodes

CallPrecision(tp, fp) ==
    /\ call = NoCall
    /\ call' = [fn |-> "compute_precision", args |-> <<tp, fp>>]
    /\ result' = Return(Num(compute_precision(tp, fp)))
    /\ built' = <<>>
    /\ UNCHANGED nodes

CallRecall(y, tp) ==
    /\ call = NoCall
    /\ call' = [fn |-> "compute_recall", args |-> <<y, tp>>]
    /\ result' = Return(Num(compute_recall(y, tp)))
    /\ built' = <<>>
    /\ UNCHANGED nodes

CallF1(precision, recall) ==
    /\ call = NoCall
    /\ call' = [fn |-> "compute_f1", args |-> <<precision, recall>>]
    /\ result' = Return(Num(compute_f1(precision, recall)))
    /\ built' = <<>>
    /\ UNCHANGED nodes

\* the graph of softmax_ratio(softmax(Zn), softmax(Zd)) evaluated on Zn, Zd
EvalSoftmaxRatio(base, Zn, Zd) ==
    /\ call = NoCall
    /\ call' = [fn |-> "softmax_ratio_value", args |-> <<base, Zn, Zd>>]
    /\ result' = Return(Num(softmax_ratio_value(base, Zn, Zd)))
    /\ built' = <<>>
    /\ UNCHANGED nodes

\* No call is in progress: the last outcome has been taken.
Idle == call = NoCall

\* The caller has taken the outcome of the last call; the next call or the
\* next step of graph construction follows.
Finish ==
    /\ call # NoCall
    /\ call' = NoCall
    /\ result' = Return(NoValue)
    /\ built' = <<>>
    /\ UNCHANGED nodes

Next ==
    \/ Idle /\ \E r \in Ranks : NewLeaf(r, MaxNodes)
    \/ Idle /\ \E op \in Ops, x \in NodeIds(nodes) : ApplyOp(op, x, MaxNodes)
    \/ Idle /\ \E n \in NodeIds(nodes) : CallArgOfSoftmax(n)
    \/ Idle /\ \E n \in NodeIds(nodes) : CallArgOfSigmoid(n)
    \/ Finish

Spec == Init /\ [][Next]_vars

\* softmax_ratio on the graphs the framework builds
NextRatio ==
    \/ Idle /\ \E r \in Ranks : NewLeaf(r, MaxLossNodes)
    \/ Idle /\ \E op \in Ops, x \in NodeIds(nodes) : ApplyOp(op, x, MaxLossNodes)
    \/ Idle /\ \E numer \in NodeIds(nodes), denom \in NodeIds(nodes) :
          CallSoftmaxRatio(numer, denom)
    \/ Finish

SpecRatio == Init /\ [][NextRatio]_vars

\* kl and elemwise_kl with no test values computed, every Y_hat, Y and
\* batch_axis
NextKl ==
    \/ Idle /\ \E r \in Ranks : NewLeaf(r, MaxLossNodes)
    \/ Idle /\ \E op \in Ops, x \in NodeIds(nodes) : ApplyOp(op, x, MaxLossNodes)
    \/ Idle /\ \E Y \in NodeIds(nodes), Y_hat \in NodeIds(nodes), b \in BatchAxisArgs :
          CallKl(Y, Y_hat, b, <<>>)
    \/ Idle /\ \E Y \in NodeIds(nodes), Y_hat \in NodeIds(nodes) :
          CallElemwiseKl(Y, Y_hat, <<>>)
    \/ Finish

SpecKl == Init /\ [][NextKl]_vars

\* kl and elemwise_kl of the targets Y = the first input variable and the
\* prediction Y_hat = the variable built last, under every test value of Y
\* (both functions read one hop from Y_hat: the graphs are one node smaller)
NextKlDebug ==
    \/ Idle /\ \E r \in Ranks : NewLeaf(r, MaxLossNodes - 1)
    \/ Idle /\ \E op \in Ops, x \in NodeIds(nodes) : ApplyOp(op, x, MaxLossNodes - 1)
    \/ Idle /\ \E dbg \in DebugValues :
          /\ Len(nodes) >= 1
          /\ CallKl(1, Len(nodes), <<0>>, dbg)
    \/ Idle /\ \E dbg \in DebugValues :
          /\ Len(nodes) >= 1
          /\ CallElemwiseKl(1, Len(nodes), dbg)
    \/ Finish

SpecKlDebug == Init /\ [][NextKlDebug]_vars

\* the metrics on every count, target vector and precision / recall
NextMetrics ==
    \/ Idle /\ \E tp \in Counts, fp \in Counts : CallPrecision(tp, fp)
    \/ Idle /\ \E y \in Targets, tp \in Counts : CallRecall(y, tp)
    \/ Idle /\ \E precision \in Probs, recall \in Probs : CallF1(precision, recall)
    \/ Finish

SpecMetrics == Init /\ [][NextMetrics]_vars

\* the value of softmax_ratio on every pair of arguments of one shape
NextRatioValue ==
    \/ Idle /\ \E base \in ExpBases, r \in 1..MaxRows, c \in 1..MaxCols :
          \E Zn \in Matrices(r, c), Zd \in Matrices(r, c) :
              EvalSoftmaxRatio(base, Zn, Zd)
    \/ Finish

SpecRatioValue == Init /\ [][NextRatioValue]_vars

---------------------------------------------------------------------------
(* What a graph node is, stated on the graph alone *)

\* n is the output of op applied to x
IsOutputOf(g, n, op, x) ==
    /\ g[n].owner # None
    /\ g[n].owner.op = op
    /\ g[n].owner.inputs = <<x>>

\* n is softmax(z) or Print(softmax(z))
SoftmaxOutputOf(g, n, z) ==
    \/ IsOutputOf(g, n, SoftmaxOp, z)
    \/ \E x \in NodeIds(g) : IsOutputOf(g, n, PrintOp, x) /\ IsOutputOf(g, x, SoftmaxOp, z)

\* the node whose operation the tracing examines: n, or the input of n
\* when n is the output of a Print
Unwrapped(g, n) ==
    IF g[n].owner # None /\ g[n].owner.op = PrintOp THEN g[n].owner.inputs[1] ELSE n

IsLeaf(g, n) == g[n].owner = None

---------------------------------------------------------------------------
(* C1 *)

\* C1: arg_of_softmax(N) returns a value if and only if N is softmax(Z) or
\* Print(softmax(Z)) for a rank-2 Z, and the value is then the node Z itself;
\* a node under two Print layers is never accepted.
C1_SoftmaxArgument ==
    call.fn = "arg_of_softmax" =>
        LET n == call.args[1] IN
        /\ result.ok <=> \E z \in NodeIds(nodes) :
                            SoftmaxOutputOf(nodes, n, z) /\ nodes[z].ndim = 2
        /\ \A z \in NodeIds(nodes) :
              (SoftmaxOutputOf(nodes, n, z) /\ nodes[z].ndim = 2) => result.value = Var(z)
        /\ (\E x, y \in NodeIds(nodes) :
              IsOutputOf(nodes, n, PrintOp, x) /\ IsOutputOf(nodes, x, PrintOp, y))
             => ~result.ok

\* Print(softmax(Z)) with Z of rank 2 is traced to Z.
C1_Witness ==
    /\ call.fn = "arg_of_softmax"
    /\ result.ok
    /\ \E x, z \in NodeIds(nodes) :
          /\ IsOutputOf(nodes, call.args[1], PrintOp, x)
          /\ IsOutputOf(nodes, x, SoftmaxOp, z)
          /\ result.value = Var(z)

---------------------------------------------------------------------------
(* C2 *)

\* C2 as stated: every failure of arg_of_softmax is NotRecognizedOperationError
\* when N is not a softmax output after unwrapping at most one Print (a leaf
\* and a Print wrapping a leaf included), and RankError when it is a softmax
\* whose input is not of rank 2.
C2_Original ==
    (call.fn = "arg_of_softmax" /\ ~result.ok) =>
        LET u == Unwrapped(nodes, call.args[1]) IN
        IF ~IsLeaf(nodes, u) /\ nodes[u].owner.op = SoftmaxOp
        THEN result.kind = "RankError"
        ELSE result.kind = "NotRecognizedOperationError"

\* C2, amended: the failure of arg_of_softmax(N) is determined by N alone.  A
\* leaf fails the assertion on its owner (AssertionError); a Print wrapping a
\* leaf fails with AttributeError; a node whose operation, after unwrapping at
\* most one Print, is not Softmax fails with NotRecognizedOperationError
\* (ValueError, naming that operation), whatever the rank of its input; a
\* softmax whose input is not of rank 2 fails with RankError (AssertionError).
\* There is no other failure.
C2_Amended ==
    call.fn = "arg_of_softmax" =>
        LET n == call.args[1]
            u == Unwrapped(nodes, n)
        IN
        IF IsLeaf(nodes, n)
        THEN ~result.ok /\ result.exc = "AssertionError" /\ result.kind = "OwnerIsNone"
        ELSE IF IsLeaf(nodes, u)
        THEN ~result.ok /\ result.exc = "AttributeError" /\ result.kind = "NoneHasNoOp"
        ELSE IF nodes[u].owner.op # SoftmaxOp
        THEN /\ ~result.ok
             /\ result.exc = "ValueError"
             /\ result.kind = "NotRecognizedOperationError"
             /\ result.about = nodes[u].owner.op
        ELSE IF nodes[nodes[u].owner.inputs[1]].ndim # 2
        THEN ~result.ok /\ result.exc = "AssertionError" /\ result.kind = "RankError"
        ELSE result.ok

\* A non-softmax operation whose input is not of rank 2 is reported as not
\* recognized: the operation is checked before the rank.
C2_Witness ==
    /\ call.fn = "arg_of_softmax"
    /\ result.kind = "NotRecognizedOperationError"
    /\ result.about = TanhOp
    /\ LET u == Unwrapped(nodes, call.args[1]) IN
       /\ u # call.args[1]
       /\ nodes[nodes[u].owner.inputs[1]].ndim # 2

---------------------------------------------------------------------------
(* C3 *)

SwapOp(op) ==
    IF op = SoftmaxOp THEN SigmoidOp ELSE IF op = SigmoidOp THEN SoftmaxOp ELSE op

\* the graph with softmax and sigmoid exchanged
SwapGraph(g) ==
    [i \in DOMAIN g |->
        IF g[i].owner = None THEN g[i]
        ELSE [g[i] EXCEPT !.owner.op = SwapOp(@)]]

\* the same returned node, or the same kind of error about the same operation
\* (the Python classes differ: ValueError in arg_of_softmax, TypeError in
\* arg_of_sigmoid)
SameOutcome(sig, soft) ==
    /\ sig.ok = soft.ok
    /\ sig.kind = soft.kind
    /\ sig.value = soft.value
    /\ sig.about = (IF soft.about = None THEN None ELSE SwapOp(soft.about))

\* C3: arg_of_sigmoid has the shape of arg_of_softmax with the sigmoid Elemwise
\* in place of Softmax: on graphs that differ only in that, the two give the
\* same outcome (the same input node, or the same kind of error).
C3_SigmoidLikeSoftmax ==
    /\ call.fn = "arg_of_sigmoid" =>
          SameOutcome(result, arg_of_softmax(SwapGraph(nodes), call.args[1]))
    /\ call.fn = "arg_of_softmax" =>
          SameOutcome(arg_of_sigmoid(SwapGraph(nodes), call.args[1]), result)

\* An Elemwise op wrapping a non-sigmoid primitive, behind one Print, is not
\* recognized.
C3_Witness ==
    /\ call.fn = "arg_of_sigmoid"
    /\ result.kind = "NotRecognizedOperationError"
    /\ result.about = TanhOp
    /\ Unwrapped(nodes, call.args[1]) # call.args[1]

---------------------------------------------------------------------------
(* C4 *)

IsKlCall == call.fn \in {"kl", "elemwise_kl"}

\* the arguments of the last kl / elemwise_kl call
ArgY == call.args[1]
ArgYhat == call.args[2]
ArgDbg == IF call.fn = "kl" THEN call.args[4] ELSE call.args[3]

\* the elementwise total of a returned result, and the logit in it
TotalOf(v) == IF v.op = "mean" THEN v.a ELSE v
LogitsIn(total) == {total.a.b.a.a, total.b.b.a}

\* Y_hat itself is the output of the sigmoid Elemwise (no Print in between)
DirectSigmoid(g, n) == ~IsLeaf(g, n) /\ g[n].owner.op = SigmoidOp

\* batch_axis designates an axis of a total of rank naxes
DesignatesAxis(b, naxes) == b # <<>> /\ 0 - naxes <= b[1] /\ b[1] < naxes

\* the rank of the total of the last kl call on a direct sigmoid
KlNaxes == Max(nodes[ArgY].ndim, nodes[nodes[ArgYhat].owner.inputs[1]].ndim)

\* C4 as stated: kl (with a batch_axis that is always an axis, 0) and
\* elemwise_kl produce an output exactly when arg_of_sigmoid(Y_hat) succeeds,
\* use the Z it returns, and fail with its error when it fails.
C4_Original ==
    (IsKlCall /\ (call.fn = "kl" => call.args[3] = <<0>>)) =>
        LET s == arg_of_sigmoid(nodes, ArgYhat) IN
        /\ result.ok <=> s.ok
        /\ result.ok => LogitsIn(TotalOf(result.value)) = {s.value}
        /\ ~s.ok => result.kind = s.kind

\* C4, amended: kl and elemwise_kl do not call arg_of_sigmoid; they inspect
\* the owner of Y_hat themselves.  With no test values and (for kl) a
\* batch_axis that designates an axis, they produce an output exactly when
\* Y_hat itself is the output of the sigmoid Elemwise: no Print is unwrapped
\* and the rank of the input is not checked.  Z is the sole input of that op,
\* which is the node arg_of_sigmoid returns whenever arg_of_sigmoid succeeds
\* on such a Y_hat.  Otherwise they fail with their own errors: a leaf fails
\* an assertion, an op with no scalar_op (Print included) raises ValueError
\* naming the op, an Elemwise of another primitive fails an assertion.
C4_Amended ==
    (IsKlCall /\ (call.fn = "kl" => call.args[3] # <<>>)) =>
        LET direct == DirectSigmoid(nodes, ArgYhat)
            s == arg_of_sigmoid(nodes, ArgYhat)
        IN
        /\ result.ok => direct
        /\ (direct /\ (call.fn = "kl" => DesignatesAxis(call.args[3], KlNaxes)))
              => result.ok
        /\ result.ok =>
              LogitsIn(TotalOf(result.value)) = {Var(nodes[ArgYhat].owner.inputs[1])}
        /\ (result.ok /\ s.ok) => LogitsIn(TotalOf(result.value)) = {s.value}
        /\ ~direct =>
              IF IsLeaf(nodes, ArgYhat)
              THEN result.exc = "AssertionError" /\ result.kind = "OwnerIsNone"
              ELSE IF nodes[ArgYhat].owner.op.type = "Elemwise"
              THEN result.exc = "AssertionError" /\ result.kind = "ScalarOpIsNotSigmoid"
              ELSE /\ result.exc = "ValueError"
                   /\ result.kind = "NotRecognizedOperationError"
                   /\ result.about = nodes[ArgYhat].owner.op

\* kl accepts a sigmoid whose input is not of rank 2, which arg_of_sigmoid
\* rejects.
C4_Witness ==
    /\ call.fn = "kl"
    /\ result.ok
    /\ arg_of_sigmoid(nodes, ArgYhat).kind = "RankError"

---------------------------------------------------------------------------
(* C5 *)

\* Y * softplus(-Z) + (1 - Y) * softplus(Z)
ExpectedTotal(Y, Z) ==
    [op |-> "add",
     a |-> [op |-> "mul", a |-> Var(Y),
            b |-> [op |-> "softplus", a |-> [op |-> "neg", a |-> Var(Z)]]],
     b |-> [op |-> "mul", a |-> [op |-> "one_minus", a |-> Var(Y)],
            b |-> [op |-> "softplus", a |-> Var(Z)]]]

---------------------------------------------------------------------------
(* C10 *)

\* an entry of the test value lies below 0 or above 1
OutOfRange(dbg) ==
    \E i \in DOMAIN dbg : \E j \in DOMAIN dbg[i] :
        LET e == dbg[i][j] IN e[1] < 0 \/ e[1] > e[2]

\* C10: the range of Y is checked only on the test values of Y.  On a Y_hat
\* the functions accept: a test value with an entry below 0 or above 1 makes
\* the call fail with DomainError before any derived node is built; with no
\* test value the call returns its output; a test value within [0,1], 0 and 1
\* included, never makes the call fail.  DomainError is raised in no other
\* case, and no call on an out-of-range test value returns.
C10_DebugDomainCheck ==
    IsKlCall =>
        LET direct == DirectSigmoid(nodes, ArgYhat)
            bad == OutOfRange(ArgDbg)
        IN
        /\ (direct /\ bad) =>
              ~result.ok /\ result.kind = "DomainError" /\ built = <<>>
        /\ (direct /\ ~bad) => result.ok /\ built # <<>>
        /\ result.kind = "DomainError" => bad /\ ArgDbg # <<>>
        /\ bad => ~result.ok /\ built = <<>>

\* A test value holding exactly 0 and exactly 1 passes the check.
C10_Witness ==
    /\ call.fn = "kl"
    /\ result.ok
    /\ ArgDbg = << <<Rat(0), Rat(1)>> >>

---------------------------------------------------------------------------
(* C6 *)

\* C6: softmax_ratio returns only when arg_of_softmax succeeds on numer and on
\* denom; otherwise the error of arg_of_softmax surfaces unchanged, that of
\* numer first, and no derived node has been built.
C6_RatioPropagates ==
    call.fn = "softmax_ratio" =>
        LET rn == arg_of_softmax(nodes, call.args[1])
            rd == arg_of_softmax(nodes, call.args[2])
        IN
        /\ result.ok <=> (rn.ok /\ rd.ok)
        /\ ~rn.ok => result = rn
        /\ (rn.ok /\ ~rd.ok) => result = rd
        /\ ~result.ok => built = <<>>
        /\ result.ok => built # <<>>

\* numer and denom are both unrecognized, with different errors: the error is
\* the one for numer.
C6_Witness ==
    /\ call.fn = "softmax_ratio"
    /\ ~result.ok
    /\ built = <<>>
    /\ result = arg_of_softmax(nodes, call.args[1])
    /\ ~arg_of_softmax(nodes, call.args[2]).ok
    /\ result # arg_of_softmax(nodes, call.args[2])

---------------------------------------------------------------------------
(* C7, C8 *)

\* n/d = a/b for the rational <<n, d>> and integers a, b with b # 0
EqualsFraction(q, a, b) == IsDefined(q) /\ q[1] * b = a * q[2]

C8_DocumentedFormulas ==
    /\ (call.fn = "compute_f1" /\ RAdd(call.args[1], call.args[2]) # Rat(0)) =>
          result.value.v =
              RDiv(RMul(RMul(Rat(2), call.args[1]), call.args[2]),
                   RAdd(call.args[1], call.args[2]))
    /\ (call.fn = "compute_precision" /\ call.args[1] + call.args[2] > 0) =>
          EqualsFraction(result.value.v, call.args[1], call.args[1] + call.args[2])

---------------------------------------------------------------------------
(* C9 *)

\* a row of softmax(Z): softmax(Z)[i][j] = exp(Z[i][j]) / sum_k exp(Z[i][k])
SoftmaxRow(base, row) ==
    LET s == ExpRowSum(base, row, Len(row)) IN
    [j \in DOMAIN row |-> RDiv(RExp(base, row[j]), s)]

\* C9: the value softmax_ratio computes from the logits Zn, Zd equals
\* softmax(Zn) / softmax(Zd) element by element (the row shifts cancel), and
\* is all ones when the two logits are the same.
C9_RatioOfSoftmaxes ==
    call.fn = "softmax_ratio_value" =>
        LET base == call.args[1]
            Zn == call.args[2]
            Zd == call.args[3]
            v == result.value.v
        IN
        /\ DOMAIN v = DOMAIN Zn
        /\ \A i \in DOMAIN Zn :
              LET sn == SoftmaxRow(base, Zn[i])
                  sd == SoftmaxRow(base, Zd[i])
              IN
              /\ DOMAIN v[i] = DOMAIN Zn[i]
              /\ \A j \in DOMAIN Zn[i] :
                    /\ IsDefined(v[i][j])
                    /\ v[i][j] = RDiv(sn[j], sd[j])
                    /\ Zn = Zd => v[i][j] = Rat(1)

\* Two different rows of logits, each with distinct entries: both shifts are
\* not zero, and the ratio is not 1.
C9_Witness ==
    /\ call.fn = "softmax_ratio_value"
    /\ call.args[2] = <<<<1, -1, -1>>>>
    /\ call.args[3] = <<<<-1, 1, -1>>>>
    /\ result.value.v[1][1] # Rat(1)

====
